---- MODULE Spec2Model ----
(***************************************************************************)
(* A model of ldclientplus: the retry wrapper and report export calls of   *)
(* LDClientPlus (ldclientplus.py) and the dynamic loader DynamicLDClient    *)
(* (DynamicLDClient.py).                                                    *)
(***************************************************************************)
EXTENDS Integers, Sequences, FiniteSets, TLC

(***************************************************************************)
(* Bounds of the model.                                                    *)
(***************************************************************************)
\* Largest retry argument a caller passes explicitly.
MaxRetry == 3
\* Largest number of leading transient failures of a remote operation that
\* recovers (one that never recovers is modelled as well).
MaxFail == 2

\* Longest text of a line of ldclient_version.py.
MaxVerLen == 5
\* Most close() calls a caller makes on one object.
MaxCloses == 2
\* Most entries of an extra_modules list, and most components of an entry.
MaxMods == 2
MaxDepth == 3
\* Most DynamicLDClient objects one process constructs.
MaxSessions == 2

(***************************************************************************)
(* Program constants.                                                      *)
(***************************************************************************)
\* retry=10, the default of retry_api_call and of dump_live_report.
DefaultRetry == 10
\* randint(1, 10): the shortest and the longest backoff.
MinSleep == 1
MaxSleep == 10

(***************************************************************************)
(* LDClientPlus: state.                                                    *)
(***************************************************************************)
VARIABLES
    op,         \* the public method that was called, "idle" before the call
    argRetry,   \* the retry argument the caller gave to the public method
    argLevel,   \* the report_level argument the caller gave: "None" or "given"
    dlrRetry,   \* the retry parameter as dump_live_report received it
    dlrLevel,   \* report_level inside dump_live_report
    cpc,        \* position in the public method
    stage,      \* the remote operation retry_api_call is running for
    rpc,        \* position in retry_api_call: "idle", "try", "sleep", "returned", "raised"
    n,          \* the loop variable of retry_api_call
    bound,      \* the retry parameter as retry_api_call received it
    func,       \* the remote operation: transient errors on its first k calls, or forever
    sleepFor,   \* the duration of the sleep in progress, 0 when not sleeping
    calls,      \* how often the running retry_api_call has called func
    waits,      \* how often the running retry_api_call has called sleep
    ret,        \* per remote operation, what retry_api_call returned ("unset" before)
    dlrRet,     \* what dump_live_report returned ("unset" before)
    raised,     \* the exception that left the public method, "none" if none
    file,       \* the target file of dump_live_report_to_file: "absent" or "written"
    log         \* the error messages logged

(***************************************************************************)
(* DynamicLDClient and the process it runs in: state.                      *)
(***************************************************************************)
VARIABLES
    session,      \* how many DynamicLDClient objects were constructed; the last is "self"
    lpc,          \* position of self: in _get_api, "loaded", or "failed"
    disk,         \* the scratch directories that exist on disk
    tmpDir,       \* self._tmp_dir
    ldclientDir,  \* self._ldclient_dir
    archive,      \* what the downloaded archive extracted to
    version,      \* ldclient_version, the local of _get_api
    moduleName,   \* ldclient_module_name, the local of _get_api
    sysPath,      \* sys.path
    sysModules,   \* sys.modules: module name -> the version its module came from
    extraArg,     \* the extra_modules argument
    extraIdx,     \* how many entries of extra_modules the loop of line 170 has done
    extraModules, \* self.extra_modules
    api,          \* self.api
    lraised,      \* the exception that left the constructor, "none" if none
    closes,       \* how often the caller has called self.close()
    inserted,     \* how often self has inserted its package directory into sys.path
    removed       \* how often self has removed its package directory from sys.path

lvars == <<session, lpc, disk, tmpDir, ldclientDir, archive, version, moduleName,
           sysPath, sysModules, extraArg, extraIdx, extraModules, api, lraised,
           closes, inserted, removed>>

cvars == <<op, argRetry, argLevel, dlrRetry, dlrLevel, cpc, stage, rpc, n, bound,
           func, sleepFor, calls, waits, ret, dlrRet, raised, file, log>>

\* The remote operations of dump_live_report; "direct" is a func handed to
\* retry_api_call by a caller of that method.
Stages == {"metadata", "execute", "results_metadata", "export", "direct"}

\* What a remote operation can return: None, an empty value (len 0), data.
Values == {"None", "Empty", "Data"}
\* What a remote operation does once it stops failing transiently: return a
\* value, or raise an error that is not one of the three transient ones.
Finals == Values \cup {"OtherError"}
\* How a remote operation behaves: HTTPError, ConnectionError or
\* ServerProcessingError on its first k calls and then `final`, or a
\* transient error on every call.
Funcs == {[k |-> k, forever |-> FALSE, final |-> f] : k \in 0 .. MaxFail, f \in Finals}
           \cup {[k |-> 0, forever |-> TRUE, final |-> "None"]}
\* Whether call number c (from 1) of f ends in a transient error.
FailsTransiently(f, c) == f.forever \/ c <= f.k
\* The retry arguments of a call: an explicit one, or the default.
RetryArgs == (0 .. MaxRetry) \cup {DefaultRetry}

ClientInit ==
    /\ op = "idle"
    /\ argRetry = DefaultRetry
    /\ argLevel = "None"
    /\ dlrRetry = DefaultRetry
    /\ dlrLevel = "None"
    /\ cpc = "idle"
    /\ stage = "none"
    /\ rpc = "idle"
    /\ n = 0
    /\ bound = 0
    /\ func = [k |-> 0, forever |-> FALSE, final |-> "None"]
    /\ sleepFor = 0
    /\ calls = 0
    /\ waits = 0
    /\ ret = [s \in Stages |-> "unset"]
    /\ dlrRet = "unset"
    /\ raised = "none"
    /\ file = "absent"
    /\ log = {}

(***************************************************************************)
(* retry_api_call (ldclientplus.py 55-69).                                 *)
(***************************************************************************)
\* `for n in range(retry)` is over once n reaches retry.
LoopExhaustedOffByOne(i, retry) == i > retry
LoopExhausted(i, retry) == i >= retry

\* Entering retry_api_call(func, lr_id, retry=r) for remote operation s; the
\* behaviour of func is the environment's choice.
EnterRetry(s, r) ==
    /\ stage' = s
    /\ bound' = r
    /\ n' = 0
    /\ rpc' = "try"
    /\ sleepFor' = 0
    /\ calls' = 0
    /\ waits' = 0
    /\ \E f \in Funcs : func' = f

\* One pass of the loop body: func is called; a transient error is logged and
\* followed by sleep(randint(1, 10)); otherwise func returns a value, which
\* is returned, or raises another error, which leaves retry_api_call.
Attempt ==
    /\ rpc = "try"
    /\ ~LoopExhausted(n, bound)
    /\ calls' = calls + 1
    /\ IF FailsTransiently(func, calls + 1)
         THEN /\ rpc' = "sleep"
              /\ \E d \in MinSleep .. MaxSleep : sleepFor' = d
              /\ waits' = waits + 1
              /\ log' = log \cup {"retrying"}
              /\ UNCHANGED ret
         ELSE /\ UNCHANGED <<sleepFor, waits, log>>
              /\ IF func.final = "OtherError"
                   THEN rpc' = "raised" /\ UNCHANGED ret
                   ELSE rpc' = "returned" /\ ret' = [ret EXCEPT ![stage] = func.final]
    /\ UNCHANGED <<op, argRetry, argLevel, dlrRetry, dlrLevel, cpc, stage, n, bound,
                   func, dlrRet, raised, file>>
    /\ UNCHANGED lvars

\* The sleep ends and the loop goes to its next n.
Wake ==
    /\ rpc = "sleep"
    /\ n' = n + 1
    /\ rpc' = "try"
    /\ sleepFor' = 0
    /\ UNCHANGED <<op, argRetry, argLevel, dlrRetry, dlrLevel, cpc, stage, bound,
                   func, calls, waits, ret, dlrRet, raised, file, log>>
    /\ UNCHANGED lvars

\* The loop is over: "Giving up ..." is logged and None returned.
GiveUp ==
    /\ rpc = "try"
    /\ LoopExhausted(n, bound)
    /\ rpc' = "returned"
    /\ ret' = [ret EXCEPT ![stage] = "None"]
    /\ log' = log \cup {"giving up"}
    /\ UNCHANGED <<op, argRetry, argLevel, dlrRetry, dlrLevel, cpc, stage, n, bound,
                   func, sleepFor, calls, waits, dlrRet, raised, file>>
    /\ UNCHANGED lvars

\* A caller calls retry_api_call itself.
CallRetryApiCall ==
    /\ op = "idle"
    /\ \E r \in RetryArgs :
         /\ argRetry' = r
         /\ EnterRetry("direct", r)
    /\ op' = "retry_api_call"
    /\ cpc' = "in_retry"
    /\ UNCHANGED <<argLevel, dlrRetry, dlrLevel, ret, dlrRet, raised, file, log>>
    /\ UNCHANGED lvars

\* retry_api_call hands its result, or the error it did not catch, to that caller.
ReturnFromRetryApiCall ==
    /\ op = "retry_api_call"
    /\ cpc = "in_retry"
    /\ rpc \in {"returned", "raised"}
    /\ cpc' = "done"
    /\ raised' = IF rpc = "raised" THEN "OtherError" ELSE "none"
    /\ rpc' = "idle"
    /\ UNCHANGED <<op, argRetry, argLevel, dlrRetry, dlrLevel, stage, n, bound, func,
                   sleepFor, calls, waits, ret, dlrRet, file, log>>
    /\ UNCHANGED lvars

(***************************************************************************)
(* dump_live_report (ldclientplus.py 71-108).                              *)
(***************************************************************************)
\* The retry argument of the four retry_api_call calls of dump_live_report:
\* the first call passes none (line 76), the others pass retry=retry.
StageRetry(s, retry) == IF s = "metadata" THEN DefaultRetry ELSE retry

\* `if results is None`, `if metadata is None`, `if current_csv is None`.
IsNone(v) == v = "None"

\* The stages whose result dump_live_report tests with `is None` before it
\* goes on (lines 89, 97, 102); lr of line 76 is not tested.
CheckedStages == {"execute", "results_metadata", "export"}

\* getattr(lr, 'report_level', 'PARENT'): the level of lr where lr has one.
LevelOf(lr) == IF lr = "Data" THEN "from_lr" ELSE "PARENT"

\* The first statements of dump_live_report, up to its first remote call.
EnterDump(retry, level) ==
    /\ dlrRetry' = retry
    /\ dlrLevel' = level
    /\ cpc' = "in_dump"
    /\ IF level = "None"
         THEN EnterRetry("metadata", StageRetry("metadata", retry))
         ELSE EnterRetry("execute", StageRetry("execute", retry))

\* A caller calls dump_live_report(lr_id, report_level=level, retry=r).
CallDumpLiveReport ==
    /\ op = "idle"
    /\ \E r \in RetryArgs, level \in {"None", "given"} :
         /\ argRetry' = r
         /\ argLevel' = level
         /\ EnterDump(r, level)
    /\ op' = "dump_live_report"
    /\ UNCHANGED <<ret, dlrRet, raised, file, log>>
    /\ UNCHANGED lvars

\* Lines 77-88: lr came back (whatever it is); report_level is read off it and
\* the report executed.
AfterMetadata ==
    /\ cpc = "in_dump"
    /\ stage = "metadata"
    /\ rpc = "returned"
    /\ dlrLevel' = LevelOf(ret["metadata"])
    /\ EnterRetry("execute", StageRetry("execute", dlrRetry))
    /\ UNCHANGED <<op, argRetry, argLevel, dlrRetry, cpc, ret, dlrRet, raised, file,
                   log>>
    /\ UNCHANGED lvars

\* Lines 89-104: a tested stage came back; None ends dump_live_report with an
\* error logged, anything else leads to the next stage, or to `return current_csv`.
AfterCheckedStage ==
    /\ cpc = "in_dump"
    /\ stage \in CheckedStages
    /\ rpc = "returned"
    /\ IF IsNone(ret[stage])
         THEN /\ log' = log \cup {"could not " \o stage}
              /\ dlrRet' = "None"
              /\ cpc' = "dump_returned"
              /\ rpc' = "idle"
              /\ UNCHANGED <<stage, n, bound, func, sleepFor, calls, waits>>
         ELSE IF stage = "export"
           THEN /\ dlrRet' = ret["export"]
                /\ cpc' = "dump_returned"
                /\ rpc' = "idle"
                /\ UNCHANGED <<stage, n, bound, func, sleepFor, calls, waits, log>>
           ELSE /\ LET next == IF stage = "execute" THEN "results_metadata" ELSE "export"
                   IN  EnterRetry(next, StageRetry(next, dlrRetry))
                /\ UNCHANGED <<cpc, dlrRet, log>>
    /\ UNCHANGED <<op, argRetry, argLevel, dlrRetry, dlrLevel, ret, raised, file>>
    /\ UNCHANGED lvars

\* Lines 105-107: any error retry_api_call let through is logged and
\* dump_live_report returns None.
DumpExcept ==
    /\ cpc = "in_dump"
    /\ rpc = "raised"
    /\ log' = log \cup {"unusual exception"}
    /\ dlrRet' = "None"
    /\ cpc' = "dump_returned"
    /\ rpc' = "idle"
    /\ UNCHANGED <<op, argRetry, argLevel, dlrRetry, dlrLevel, stage, n, bound, func,
                   sleepFor, calls, waits, ret, raised, file>>
    /\ UNCHANGED lvars

\* dump_live_report hands its result to its caller.
ReturnFromDump ==
    /\ op = "dump_live_report"
    /\ cpc = "dump_returned"
    /\ cpc' = "done"
    /\ UNCHANGED <<op, argRetry, argLevel, dlrRetry, dlrLevel, stage, rpc, n, bound,
                   func, sleepFor, calls, waits, ret, dlrRet, raised, file, log>>
    /\ UNCHANGED lvars

(***************************************************************************)
(* dump_live_report_to_file (ldclientplus.py 110-116).                     *)
(***************************************************************************)
\* len(csv): None has no len (TypeError, -1 here), an empty value has len 0.
PyLen(v) == CASE v = "None" -> -1 [] v = "Empty" -> 0 [] OTHER -> 1

\* Line 111: dump_live_report is called with the literals report_level=None and
\* retry=10, whatever the caller passed.
CallDumpLiveReportToFile ==
    /\ op = "idle"
    /\ \E r \in RetryArgs, level \in {"None", "given"} :
         /\ argRetry' = r
         /\ argLevel' = level
         /\ EnterDump(DefaultRetry, "None")
    /\ op' = "dump_live_report_to_file"
    /\ UNCHANGED <<ret, dlrRet, raised, file, log>>
    /\ UNCHANGED lvars

\* Lines 112-116: len(csv) is taken; the file is written, or the error logged.
WriteOrLog ==
    /\ op = "dump_live_report_to_file"
    /\ cpc = "dump_returned"
    /\ cpc' = "done"
    /\ IF PyLen(dlrRet) < 0
         THEN raised' = "TypeError" /\ UNCHANGED <<file, log>>
         ELSE IF PyLen(dlrRet) > 0
           THEN file' = "written" /\ UNCHANGED <<raised, log>>
           ELSE log' = log \cup {"dump was empty"} /\ UNCHANGED <<raised, file>>
    /\ UNCHANGED <<op, argRetry, argLevel, dlrRetry, dlrLevel, stage, rpc, n, bound,
                   func, sleepFor, calls, waits, ret, dlrRet>>
    /\ UNCHANGED lvars

(***************************************************************************)
(* Text, as sequences of characters.                                       *)
(***************************************************************************)
Digits == {"1", "2", "3"}
Chars == Digits \cup {"."}
\* The texts of at most len characters.
TextsUpTo(len) == UNION {[1 .. m -> Chars] : m \in 0 .. len}

\* Whether s[a..b] is a non-empty run of [0-9].
IsDigitRun(s, a, b) == a <= b /\ \A i \in a .. b : s[i] \in Digits

\* Line 107: re.match("VERSION = [\"']([0-9]+.[0-9]+.[0-9]+)[\"']", line), for
\* a line VERSION = "s": three runs of digits with one character of any kind,
\* the unescaped `.` of the pattern, at i and at j between them.
MatchesVersion(s) ==
    \E i, j \in 1 .. Len(s) :
        /\ i < j
        /\ IsDigitRun(s, 1, i - 1)
        /\ IsDigitRun(s, i + 1, j - 1)
        /\ IsDigitRun(s, j + 1, Len(s))

\* Lines 106-111: the index of the first line that matches, 0 if none does.
RECURSIVE FirstMatch(_, _)
FirstMatch(lines, i) ==
    IF i > Len(lines) THEN 0
    ELSE IF MatchesVersion(lines[i]) THEN i
    ELSE FirstMatch(lines, i + 1)

\* ldclient_version.replace('.', '').
RemoveDots(s) == SelectSeq(s, LAMBDA c : c # ".")

\* Line 153: f"ldclient_{ldclient_version.replace('.', '')}".
ModuleName(v) == <<"ldclient_">> \o RemoveDots(v)

\* mod.split('.') of a dotted path such as <<"api", ".", "paths">>.
Split(mod) == SelectSeq(mod, LAMBDA c : c # ".")

\* The dotted path of the components parts.
RECURSIVE Dotted(_)
Dotted(parts) ==
    IF Len(parts) <= 1 THEN parts
    ELSE <<Head(parts), ".">> \o Dotted(Tail(parts))

\* Line 174: f'{ldclient_module_name}.{mod}', the name a sub-module gets.
SubModuleName(name, mod) == name \o <<".">> \o mod

(***************************************************************************)
(* ExtraModules (DynamicLDClient.py 15-38) and the objects it holds.       *)
(***************************************************************************)
\* The empty mapping.
NoItems == <<>>
\* None, the module loaded for a dotted path, a plain dict, an ExtraModules.
NoneObj == [tag |-> "None", name |-> <<>>, items |-> NoItems]
Module(mod) == [tag |-> "module", name |-> mod, items |-> NoItems]
Dict(items) == [tag |-> "dict", name |-> <<>>, items |-> items]
ExtraModulesOf(items) == [tag |-> "ExtraModules", name |-> <<>>, items |-> items]
\* What an attribute access that raises AttributeError gives.
NoAttr == [tag |-> "AttributeError", name |-> <<>>, items |-> NoItems]

\* isinstance(data, dict): ExtraModules is a dict subclass.
IsDict(o) == o.tag \in {"dict", "ExtraModules"}

\* Lines 31-38.
RECURSIVE FromNestedDict(_)
FromNestedDict(data) ==
    IF ~IsDict(data) THEN data
    ELSE ExtraModulesOf([key \in DOMAIN data.items |-> FromNestedDict(data.items[key])])

\* Lines 24-25: self[name] = self.from_nested_dict(value), on the mapping em.
SetAttr(em, name, value) ==
    ExtraModulesOf((name :> FromNestedDict(value)) @@ em.items)

\* Lines 20-22 for an ExtraModules (None for a missing key); a module has only
\* the attributes its own code defines, and None has none.
GetAttr(o, name) ==
    IF o.tag = "ExtraModules"
      THEN IF name \in DOMAIN o.items THEN o.items[name] ELSE NoneObj
      ELSE NoAttr

\* Lines 175-177: mod_dict = module; for part in mod_parts[1:]: mod_dict = {part: mod_dict}.
RECURSIVE NestInside(_, _)
NestInside(modDict, rest) ==
    IF rest = <<>> THEN modDict
    ELSE NestInside(Dict(Head(rest) :> modDict), Tail(rest))

\* Lines 171-178 for one entry mod of extra_modules, on the mapping em.
StoreExtra(em, mod) ==
    SetAttr(em, Head(Split(mod)), NestInside(Module(mod), Tail(Split(mod))))

\* self.extra_modules.p1.p2 ... pn, for parts = <<p1, ..., pn>>.
RECURSIVE Resolve(_, _)
Resolve(o, parts) ==
    IF parts = <<>> THEN o
    ELSE Resolve(GetAttr(o, Head(parts)), Tail(parts))

(***************************************************************************)
(* Directories, sys.path, sys.modules.                                     *)
(***************************************************************************)
\* self._ldclient_dir before line 147, the package directory of object s, and
\* the entry sys.path holds before any object exists.
NoneDir == [kind |-> "None", id |-> 0]
PackageDir(s) == [kind |-> "ldclient", id |-> s]
BasePath == <<[kind |-> "site-packages", id |-> 0]>>

Range(seq) == {seq[i] : i \in 1 .. Len(seq)}

\* list.remove(x): the list without its first x (the caller has checked x is in it).
RemoveFirst(seq, x) ==
    LET i == CHOOSE i \in 1 .. Len(seq) : seq[i] = x /\ \A j \in 1 .. i - 1 : seq[j] # x
    IN  SubSeq(seq, 1, i - 1) \o SubSeq(seq, i + 1, Len(seq))

\* Lines 208-211 of close(): sys.path.remove(self._ldclient_dir), ValueError
\* and TypeError swallowed.
PathAfterCloseDropsHead(path, dir) == IF path = <<>> THEN path ELSE Tail(path)
PathAfterClose(path, dir) ==
    IF dir \in Range(path) THEN RemoveFirst(path, dir) ELSE path

\* Lines 212-213 of close(): the scratch directory is removed if it exists.
DiskAfterClose(d, tmp) == IF tmp \in d THEN d \ {tmp} ELSE d

\* Line 86: sys.modules[spec.name] = module.
Register(mods, name, ver) == (name :> ver) @@ mods

\* What an archive can extract to: an ldclient-* folder or none, in it
\* ldclient_version.py (its lines) or none, and the ldclient package or none.
NoVersionFile == [present |-> FALSE, lines |-> <<>>]
Archives(files) ==
    {[folder |-> f, vfile |-> v, pkg |-> k] :
        f \in BOOLEAN,
        v \in {NoVersionFile} \cup {[present |-> TRUE, lines |-> l] : l \in files},
        k \in BOOLEAN}
NoArchive == [folder |-> FALSE, vfile |-> [present |-> FALSE, lines |-> <<>>], pkg |-> FALSE]

\* The extra_modules argument: None, the default, or a list of dotted paths.
NoExtra == [isNone |-> TRUE, mods |-> <<>>]
ExtraList(mods) == [isNone |-> FALSE, mods |-> mods]

LoaderInit ==
    /\ session = 0
    /\ lpc = "new"
    /\ disk = {}
    /\ tmpDir = 0
    /\ ldclientDir = NoneDir
    /\ archive = NoArchive
    /\ version = [isNone |-> TRUE, text |-> <<>>]
    /\ moduleName = <<>>
    /\ sysPath = BasePath
    /\ sysModules = NoItems
    /\ extraArg = NoExtra
    /\ extraIdx = 0
    /\ extraModules = ExtraModulesOf(NoItems)
    /\ api = "unset"
    /\ lraised = "none"
    /\ closes = 0
    /\ inserted = 0
    /\ removed = 0

(***************************************************************************)
(* DynamicLDClient.__init__ and _get_api (DynamicLDClient.py 61-70, 115-205).*)
(***************************************************************************)
\* Lines 203-205: `except: self.close(); raise`, for the error err of a step.
FailWithoutClose(err) ==
    /\ lpc' = "failed"
    /\ lraised' = err
    /\ UNCHANGED <<sysPath, removed, disk>>
    /\ UNCHANGED <<session, tmpDir, ldclientDir, archive, version, moduleName,
                   extraArg, extraIdx, extraModules, api, closes, inserted>>
Fail(err) ==
    /\ lpc' = "failed"
    /\ lraised' = err
    /\ sysPath' = PathAfterClose(sysPath, ldclientDir)
    /\ removed' = removed + (Len(sysPath) - Len(sysPath'))
    /\ disk' = DiskAfterClose(disk, tmpDir)
    /\ UNCHANGED <<session, tmpDir, ldclientDir, archive, version, moduleName,
                   extraArg, extraIdx, extraModules, api, closes, inserted>>

\* Lines 61-70: a new object with its scratch directory (tempfile.mkdtemp).
NewObject(extras) ==
    /\ session' = session + 1
    /\ tmpDir' = session + 1
    /\ disk' = disk \cup {session + 1}
    /\ ldclientDir' = NoneDir
    /\ extraModules' = ExtraModulesOf(NoItems)
    /\ \E e \in extras : extraArg' = e
    /\ lpc' = "download"
    /\ archive' = NoArchive
    /\ version' = [isNone |-> TRUE, text |-> <<>>]
    /\ moduleName' = <<>>
    /\ extraIdx' = 0
    /\ api' = "unset"
    /\ lraised' = "none"
    /\ closes' = 0
    /\ inserted' = 0
    /\ removed' = 0
    /\ UNCHANGED <<sysPath, sysModules>>

\* The first object of the process is constructed.
Construct(extras) ==
    /\ lpc = "new"
    /\ NewObject(extras)
    /\ UNCHANGED cvars

\* Lines 128-134: requests.get; its error is logged and raised.
Download ==
    /\ lpc = "download"
    /\ \/ lpc' = "extract"
          /\ UNCHANGED <<session, disk, tmpDir, ldclientDir, archive, version,
                         moduleName, sysPath, extraArg, extraIdx, extraModules, api,
                         lraised, closes, inserted, removed>>
       \/ Fail("RequestException")
    /\ UNCHANGED sysModules
    /\ UNCHANGED cvars

\* Lines 136-141: the archive is written and extracted, or is no archive.
Extract(files) ==
    /\ lpc = "extract"
    /\ \/ /\ \E a \in Archives(files) : archive' = a
          /\ lpc' = "glob"
          /\ UNCHANGED <<session, disk, tmpDir, ldclientDir, version, moduleName,
                         sysPath, extraArg, extraIdx, extraModules, api, lraised,
                         closes, inserted, removed>>
       \/ Fail("TarError")
    /\ UNCHANGED sysModules
    /\ UNCHANGED cvars

\* Lines 145-150: glob.glob(path)[0].
Glob ==
    /\ lpc = "glob"
    /\ IF archive.folder
         THEN /\ ldclientDir' = PackageDir(session)
              /\ lpc' = "version"
              /\ UNCHANGED <<session, disk, tmpDir, archive, version, moduleName,
                             sysPath, extraArg, extraIdx, extraModules, api, lraised,
                             closes, inserted, removed>>
         ELSE Fail("IndexError")
    /\ UNCHANGED sysModules
    /\ UNCHANGED cvars

\* Line 152, _get_ldclient_version (101-113): the first matching line's
\* version; RuntimeError when the file has no such line; when the file is
\* missing the IOError is logged and the method returns None.
GetVersion ==
    /\ lpc = "version"
    /\ IF ~archive.vfile.present
         THEN /\ version' = [isNone |-> TRUE, text |-> <<>>]
              /\ lpc' = "name"
              /\ UNCHANGED <<session, disk, tmpDir, ldclientDir, archive, moduleName,
                             sysPath, extraArg, extraIdx, extraModules, api, lraised,
                             closes, inserted, removed>>
         ELSE IF FirstMatch(archive.vfile.lines, 1) # 0
           THEN /\ version' = [isNone |-> FALSE,
                               text |-> archive.vfile.lines[FirstMatch(archive.vfile.lines, 1)]]
                /\ lpc' = "name"
                /\ UNCHANGED <<session, disk, tmpDir, ldclientDir, archive, moduleName,
                               sysPath, extraArg, extraIdx, extraModules, api, lraised,
                               closes, inserted, removed>>
           ELSE Fail("RuntimeError")
    /\ UNCHANGED sysModules
    /\ UNCHANGED cvars

\* Line 153: None has no replace (AttributeError).
NameModule ==
    /\ lpc = "name"
    /\ IF version.isNone
         THEN Fail("AttributeError")
         ELSE /\ moduleName' = ModuleName(version.text)
              /\ lpc' = "rename"
              /\ UNCHANGED <<session, disk, tmpDir, ldclientDir, archive, version,
                             sysPath, extraArg, extraIdx, extraModules, api, lraised,
                             closes, inserted, removed>>
    /\ UNCHANGED sysModules
    /\ UNCHANGED cvars

\* Lines 155-157: os.rename of the ldclient package directory (OSError when
\* there is none), then the rewrite of models.py and requests.py, whose
\* IOError is swallowed.
Rename ==
    /\ lpc = "rename"
    /\ IF archive.pkg
         THEN /\ lpc' = "insert"
              /\ UNCHANGED <<session, disk, tmpDir, ldclientDir, archive, version,
                             moduleName, sysPath, extraArg, extraIdx, extraModules, api,
                             lraised, closes, inserted, removed>>
         ELSE Fail("OSError")
    /\ UNCHANGED sysModules
    /\ UNCHANGED cvars

\* Lines 159-160: sys.path.insert(0, self._ldclient_dir).
InsertPath ==
    /\ lpc = "insert"
    /\ sysPath' = <<ldclientDir>> \o sysPath
    /\ inserted' = inserted + 1
    /\ lpc' = "import"
    /\ UNCHANGED <<session, disk, tmpDir, ldclientDir, archive, version, moduleName,
                   sysModules, extraArg, extraIdx, extraModules, api, lraised, closes,
                   removed>>
    /\ UNCHANGED cvars

\* Lines 162-166, _load_ldclient_module (82-88): the package is entered in
\* sys.modules and then executed, which can fail.
ImportPackage ==
    /\ lpc = "import"
    /\ sysModules' = Register(sysModules, moduleName, version.text)
    /\ \/ /\ lpc' = "extras"
          /\ UNCHANGED <<session, disk, tmpDir, ldclientDir, archive, version,
                         moduleName, sysPath, extraArg, extraIdx, extraModules, api,
                         lraised, closes, inserted, removed>>
       \/ Fail("ImportError")
    /\ UNCHANGED cvars

\* Lines 170-182, one pass of the loop: the sub-module is entered in
\* sys.modules and executed, and stored in self.extra_modules; iterating over
\* extra_modules=None raises TypeError.
ImportExtra ==
    /\ lpc = "extras"
    /\ IF extraArg.isNone
         THEN Fail("TypeError") /\ UNCHANGED sysModules
         ELSE /\ extraIdx < Len(extraArg.mods)
              /\ LET mod == extraArg.mods[extraIdx + 1] IN
                   /\ sysModules' = Register(sysModules, SubModuleName(moduleName, mod),
                                             version.text)
                   /\ \/ /\ extraModules' = StoreExtra(extraModules, mod)
                         /\ extraIdx' = extraIdx + 1
                         /\ UNCHANGED <<session, lpc, disk, tmpDir, ldclientDir, archive,
                                        version, moduleName, sysPath, extraArg, api,
                                        lraised, closes, inserted, removed>>
                      \/ Fail("ImportError")
    /\ UNCHANGED cvars

\* Line 185, after the loop: sys.path.remove(self._ldclient_dir).
CleanPath ==
    /\ lpc = "extras"
    /\ ~extraArg.isNone
    /\ extraIdx = Len(extraArg.mods)
    /\ IF ldclientDir \in Range(sysPath)
         THEN /\ sysPath' = RemoveFirst(sysPath, ldclientDir)
              /\ removed' = removed + 1
              /\ lpc' = "login"
              /\ UNCHANGED <<session, disk, tmpDir, ldclientDir, archive, version,
                             moduleName, extraArg, extraIdx, extraModules, api, lraised,
                             closes, inserted>>
         ELSE Fail("ValueError")
    /\ UNCHANGED sysModules
    /\ UNCHANGED cvars

\* Lines 189-202: the client is constructed and pinged.
Login ==
    /\ lpc = "login"
    /\ \/ /\ api' = "client"
          /\ lpc' = "loaded"
          /\ UNCHANGED <<session, disk, tmpDir, ldclientDir, archive, version,
                         moduleName, sysPath, extraArg, extraIdx, extraModules, lraised,
                         closes, inserted, removed>>
       \/ Fail("LoginError")
    /\ UNCHANGED sysModules
    /\ UNCHANGED cvars

\* close() (207-213), called by the holder of a constructed object, also
\* through __exit__ (75-76).
Close ==
    /\ lpc = "loaded"
    /\ closes < MaxCloses
    /\ closes' = closes + 1
    /\ sysPath' = PathAfterClose(sysPath, ldclientDir)
    /\ removed' = removed + (Len(sysPath) - Len(sysPath'))
    /\ disk' = DiskAfterClose(disk, tmpDir)
    /\ UNCHANGED <<session, lpc, tmpDir, ldclientDir, archive, version, moduleName,
                   sysModules, extraArg, extraIdx, extraModules, api, lraised, inserted>>
    /\ UNCHANGED cvars

\* A further object is constructed in the same process, whatever became of
\* the one before.
ConstructAgain(extras) ==
    /\ lpc \in {"loaded", "failed"}
    /\ session < MaxSessions
    /\ NewObject(extras)
    /\ UNCHANGED cvars

(***************************************************************************)
(* The inputs.                                                             *)
(***************************************************************************)
\* ldclient_version.py of no line or of one line VERSION = "s".
VersionFiles == {<<>>} \cup {<<s>> : s \in TextsUpTo(MaxVerLen)}
\* ldclient_version.py of one line VERSION = "x.y.z", x, y and z runs of
\* digits, of at most MaxVerLen + 1 characters.
IsDottedVersion(s) ==
    \E i, j \in 1 .. Len(s) :
        /\ i < j
        /\ s[i] = "." /\ s[j] = "."
        /\ IsDigitRun(s, 1, i - 1)
        /\ IsDigitRun(s, i + 1, j - 1)
        /\ IsDigitRun(s, j + 1, Len(s))
DottedVersionFiles == {<<s>> : s \in {t \in TextsUpTo(MaxVerLen + 1) : IsDottedVersion(t)}}
\* ldclient_version.py as the vendor ships it.
VendorFiles == {<< <<"1", ".", "2", ".", "3">> >>}

\* extra_modules as LDClientPlus passes it (ldclientplus.py 28), as the
\* docstring has it (DynamicLDClient.py 45), empty, and left out.
ExtraMenu ==
    {NoExtra, ExtraList(<<>>), ExtraList(<< <<"models">> >>),
     ExtraList(<< <<"models">>, <<"client">> >>),
     ExtraList(<< <<"models">>, <<"api", ".", "paths">> >>)}

\* Every list of at most MaxMods dotted paths of at most MaxDepth components.
Components == {"api", "paths", "other"}
DottedPaths == {Dotted(parts) : parts \in UNION {[1 .. d -> Components] : d \in 1 .. MaxDepth}}
ExtraLists == {ExtraList(l) : l \in UNION {[1 .. m -> DottedPaths] : m \in 0 .. MaxMods}}

(***************************************************************************)
(* The specifications.                                                     *)
(***************************************************************************)
Init == ClientInit /\ LoaderInit

\* LDClientPlus: one call of a public method.
Next ==
    \/ CallRetryApiCall
    \/ CallDumpLiveReport
    \/ CallDumpLiveReportToFile
    \/ Attempt
    \/ Wake
    \/ GiveUp
    \/ ReturnFromRetryApiCall
    \/ AfterMetadata
    \/ AfterCheckedStage
    \/ DumpExcept
    \/ ReturnFromDump
    \/ WriteOrLog

vars == <<cvars, lvars>>

Spec == Init /\ [][Next]_vars

\* DynamicLDClient: one object, any archive, a usual extra_modules.
NextLoader ==
    \/ Construct(ExtraMenu)
    \/ Download
    \/ Extract(VersionFiles)
    \/ Glob
    \/ GetVersion
    \/ NameModule
    \/ Rename
    \/ InsertPath
    \/ ImportPackage
    \/ ImportExtra
    \/ CleanPath
    \/ Login
    \/ Close

SpecLoader == Init /\ [][NextLoader]_vars

\* DynamicLDClient: one object, the vendor's version file, any extra_modules.
NextModules ==
    \/ Construct(ExtraLists)
    \/ Download
    \/ Extract(VendorFiles)
    \/ Glob
    \/ GetVersion
    \/ NameModule
    \/ Rename
    \/ InsertPath
    \/ ImportPackage
    \/ ImportExtra
    \/ CleanPath
    \/ Login
    \/ Close

SpecModules == Init /\ [][NextModules]_vars

\* DynamicLDClient: several objects in one process, archives with a
\* well-formed version file, no extra module.
NextVersions ==
    \/ Construct({ExtraList(<<>>)})
    \/ ConstructAgain({ExtraList(<<>>)})
    \/ Download
    \/ Extract(DottedVersionFiles)
    \/ Glob
    \/ GetVersion
    \/ NameModule
    \/ Rename
    \/ InsertPath
    \/ ImportPackage
    \/ CleanPath
    \/ Login
    \/ Close

SpecVersions == Init /\ [][NextVersions]_vars

(***************************************************************************)
(* The claims.                                                             *)
(***************************************************************************)
\* Whether func, called at most r times, gets past its transient errors.
Recovers(f, r) == ~f.forever /\ f.k < r

\* C1: retry_api_call(func, lr_id, retry=r), r >= 1, with a func that raises a
\* transient error on its first k calls and then returns: func is called
\* min(k + 1, r) times and never more; with k < r the result of the first
\* successful call is returned; with k >= r func is called r times and None
\* is returned, and nothing is raised.
C1_RetryCallCount ==
    (op = "retry_api_call" /\ argRetry >= 1 /\ func.final \in Values) =>
        /\ calls <= (IF Recovers(func, argRetry) THEN func.k + 1 ELSE argRetry)
        /\ cpc = "done" =>
             /\ raised = "none"
             /\ IF Recovers(func, argRetry)
                  THEN calls = func.k + 1 /\ ret["direct"] = func.final
                  ELSE calls = argRetry /\ ret["direct"] = "None"

\* retry_api_call with retry=3 is over, having returned the data of the third
\* call of a func that failed twice.
C1_Witness ==
    /\ op = "retry_api_call" /\ cpc = "done"
    /\ argRetry = 3 /\ func = [k |-> 2, forever |-> FALSE, final |-> "Data"]
    /\ calls = 3 /\ ret["direct"] = "Data"

\* C2: dump_live_report_to_file writes the file only when dump_live_report
\* returned a non-empty result; in every other case no file is created, an
\* error is logged and the call returns without raising.
C2_FileOnlyWhenNonEmpty ==
    (op = "dump_live_report_to_file" /\ argRetry >= 1 /\ cpc = "done") =>
        /\ raised = "none"
        /\ (file = "written") <=> (dlrRet = "Data")
        /\ (file # "written") => ("dump was empty" \in log)

\* The place of a remote operation in dump_live_report.
StageNo(s) ==
    CASE s = "metadata" -> 1 [] s = "execute" -> 2 [] s = "results_metadata" -> 3
      [] s = "export" -> 4 [] OTHER -> 0
DumpStages == {"metadata", "execute", "results_metadata", "export"}

\* C5: in dump_live_report, once a stage has returned None no later stage is
\* invoked and dump_live_report returns None with an error logged; the CSV
\* is returned only when every stage returned a result that is not None.
C5_AnyEmptyStageStops ==
    (op \in {"dump_live_report", "dump_live_report_to_file"} /\ argRetry >= 1) =>
        /\ \A s \in DumpStages :
             ret[s] = "None" =>
                /\ StageNo(stage) <= StageNo(s)
                /\ \A t \in DumpStages : StageNo(t) > StageNo(s) => ret[t] = "unset"
                /\ cpc \in {"dump_returned", "done"} => dlrRet = "None" /\ log # {}
        /\ dlrRet \in {"Empty", "Data"} => \A s \in DumpStages : ret[s] # "None"

\* C8: with retry=r, r >= 1, given to dump_live_report or
\* dump_live_report_to_file, no remote operation is called more than r times.
C8_RetryBoundEndToEnd ==
    (op \in {"dump_live_report", "dump_live_report_to_file"} /\ argRetry >= 1) =>
        calls <= argRetry

\* C9: in retry_api_call every sleep lasts 1..10, follows a failed call and is
\* followed by another call, so that giving up after r calls takes r - 1
\* sleeps, and returning from call N takes N - 1.
C9_WaitsOnlyBetweenAttempts ==
    (op = "retry_api_call") =>
        /\ rpc = "sleep" =>
             /\ sleepFor \in MinSleep .. MaxSleep
             /\ calls >= 1
             /\ ~LoopExhausted(n + 1, bound)
        /\ (cpc = "done" /\ raised = "none" /\ calls >= 1) => waits = calls - 1

\* C3: after a load, close() leaves the scratch directory off the disk and
\* the package directory off sys.path; over load, close, close the object
\* has removed its package directory from sys.path once, having inserted it
\* once, and no entry of another; a second close() changes nothing and
\* raises nothing.
C3_CloseAfterLoad ==
    /\ removed <= inserted
    /\ lpc = "loaded" =>
         /\ inserted = 1 /\ removed = 1
         /\ sysPath = BasePath
         /\ lraised = "none"
         /\ closes >= 1 => tmpDir \notin disk /\ ldclientDir \notin Range(sysPath)

\* A loaded object has been closed twice.
C3_Witness == lpc = "loaded" /\ api = "client" /\ closes = 2 /\ removed = 1

\* C4: when a step of the load fails, the constructor raises, and by then the
\* scratch directory is off the disk and the package directory off sys.path.
C4_FailedLoadCleansUp ==
    lpc = "failed" =>
        /\ lraised # "none"
        /\ tmpDir \notin disk
        /\ ldclientDir \notin Range(sysPath)
        /\ PackageDir(session) \notin Range(sysPath)

\* The import of a requested sub-module failed, after one was imported and
\* with the package directory on sys.path.
C4_Witness ==
    /\ lpc = "failed" /\ lraised = "ImportError"
    /\ inserted = 1 /\ removed = 1 /\ extraIdx = 1

\* C7: an archive whose ldclient-* folder has no ldclient_version.py fails to
\* load with the error a version file without VERSION line gives.
C7_MissingVersionFileError ==
    (lpc = "failed" /\ archive.folder /\ ~archive.vfile.present) =>
        lraised = "RuntimeError"

\* C6: after construction every requested dotted path p1.p2...pn resolves in
\* extra_modules, by p1, then p2, ... then pn, to the module loaded for it.
C6_EveryPathResolves ==
    lpc = "loaded" =>
        \A i \in 1 .. Len(extraArg.mods) :
            Resolve(extraModules, Split(extraArg.mods[i])) = Module(extraArg.mods[i])

\* C10: "1.2.3" gives ldclient_123, and the module name of a version is the
\* name of no other version: a name sys.modules holds for one version is
\* never derived for another.
C10_ModuleNamesDistinct ==
    (~version.isNone /\ moduleName # <<>>) =>
        /\ version.text = <<"1", ".", "2", ".", "3">> =>
             moduleName = <<"ldclient_", "1", "2", "3">>
        /\ moduleName \in DOMAIN sysModules => sysModules[moduleName] = version.text

====
